---- MODULE Spec2Model ----
(***************************************************************************)
(* Model of the two forensic scripts of the repository:                    *)
(*   decrypt_files.py         xor_decrypt, brute_force_xor                 *)
(*   unshadow_file_system.py  scan_folder, detect_file_type, main          *)
(* Text (file names, tree lines, reports) is modelled as sequences of      *)
(* Unicode code points, bytes as naturals in 0..255.                       *)
(***************************************************************************)
EXTENDS Integers, Sequences, FiniteSets, TLC

VARIABLES
    \* ---- xor_decrypt applied to drawn inputs
    xdata, xkey, xonce, xtwice, xpc,
    \* ---- brute_force_xor (tried, skipped, last: history of the filter)
    data, k1, valid, files, dir_exists, tried, skipped, last, report, bpc,
    \* ---- the folder scanner: the file system and the parsed arguments,
    \* the state of the magic module, the call stack of scan_folder, main's
    \* tree and position, what was printed and written, the temporary
    \* directories that exist (listed, opened, zseen: history of the scan)
    fs, depth, allow_unzip, magic, stack, tree, spc, out_arg, stdout, written,
    tmpdirs, tmpseq, listed, opened, zseen

xvars == <<xdata, xkey, xonce, xtwice, xpc>>
bvars == <<data, k1, valid, files, dir_exists, tried, skipped, last, report, bpc>>
svars == <<fs, depth, allow_unzip, magic, stack, tree, spc, out_arg, stdout,
           written, tmpdirs, tmpseq, listed, opened, zseen>>
vars == <<xvars, bvars, svars>>

(***************************************************************************)
(* Bounds of the model                                                     *)
(***************************************************************************)
MaxLen == 3

(***************************************************************************)
(* Bytes and text                                                          *)
(***************************************************************************)
ByteCount == 256
Bytes == 0 .. (ByteCount - 1)

RECURSIVE BitXor(_, _)
\* Python's a ^ b on non-negative integers
BitXor(a, b) ==
    IF a = 0 /\ b = 0 THEN 0
    ELSE (((a % 2) + (b % 2)) % 2) + 2 * BitXor(a \div 2, b \div 2)

RECURSIVE BitOr(_, _)
BitOr(a, b) ==
    IF a = 0 /\ b = 0 THEN 0
    ELSE (IF (a % 2) = 1 \/ (b % 2) = 1 THEN 1 ELSE 0) + 2 * BitOr(a \div 2, b \div 2)

\* sequences over S of length 0..n
SeqsUpTo(S, n) == UNION { [1 .. m -> S] : m \in 0 .. n }

(***************************************************************************)
(* decrypt_files.py: xor_decrypt                                           *)
(***************************************************************************)
\* a slip: | in place of ^
xor_decrypt_or(d, key) ==
    [i \in 1 .. Len(d) |-> BitOr(d[i], key[((i - 1) % 2) + 1])]

\* bytes([b ^ key[i % 2] for i, b in enumerate(data)]); i is 0-based there
xor_decrypt(d, key) ==
    [i \in 1 .. Len(d) |-> BitXor(d[i], key[((i - 1) % 2) + 1])]

(***************************************************************************)
(* decrypt_files.py: brute_force_xor                                       *)
(***************************************************************************)
\* the blobs read from file_path: one byte, whose decryptions have one byte
\* each; 2a 2a, whose decryptions under the 5,020 tried keys get the
\* verdicts text/plain (461), application/x-compress (1), application/zlib
\* (9) and application/octet-stream (4,549); and 29 27, with 637 accepted
\* decryptions of five types, 10 of type zlib and 4,373 octet-stream
Blobs == { <<198>>, <<42, 42>>, <<41, 39>> }

\* mime_checker.from_buffer(decrypted), magic.Magic(mime=True): the verdicts
\* of libmagic (file 5.44) on buffers of at most two bytes.  A two-byte
\* buffer that matches an entry of the magic database gets that entry's
\* type; (5, 203) matches an entry that carries no type
Signature(a, b) ==
    CASE a = 0 /\ b = 20 -> "image/g3fax"
      [] a = 5 /\ b = 203 -> "application/octet-stream"
      [] a = 7 /\ b = 16 -> "application/x-lanalyzer"
      [] a = 8 /\ b = 29 -> "application/zlib"
      [] a = 11 /\ b = 119 -> "audio/vnd.dolby.dd-raw"
      [] a = 16 /\ b = 9 -> "image/x-award-bioslogo"
      [] a = 17 /\ b \in {6, 9} -> "image/x-award-bioslogo"
      [] a = 24 /\ b \in {25, 56, 87, 118, 149, 180, 211, 242} -> "application/zlib"
      [] a = 31 /\ b = 157 -> "application/x-compress"
      [] a = 37 /\ b = 33 -> "application/postscript"
      [] a = 40 /\ b = 21 -> "application/zlib"
      [] a = 56 /\ b = 17 -> "application/zlib"
      [] a = 66 /\ b = 80 -> "application/vnd.hp-HPGL"
      [] a = 78 /\ b = 80 -> "application/vnd.hp-HPGL"
      [] a = 80 /\ b = 65 -> "application/vnd.hp-HPGL"
      [] a = 83 /\ b = 80 -> "application/vnd.hp-HPGL"
      [] a = 86 /\ b \in 224 .. 255 -> "audio/x-mp4a-latm"
      [] a = 91 /\ b = 93 -> "application/json"
      [] a = 92 /\ b = 34 -> "text/troff"
      [] a = 113 /\ b = 199 -> "application/x-cpio"
      [] a = 120 /\ b = 1 -> "application/zlib"
      [] a = 123 /\ b = 125 -> "application/json"
      [] a = 133 /\ b = 2 -> "text/PGP"
      [] a = 166 /\ b = 0 -> "text/PGP"
      [] a = 170 /\ b \in {88, 89, 90} -> "application/x-ibm-dsk"
      [] a = 199 /\ b = 113 -> "application/x-cpio"
      [] a = 224 /\ b = 127 -> "text/troff"
      [] a = 255 /\ b = 10 -> "image/jxl"
      [] a = 255 /\ b \in {226, 227, 242, 243, 244, 245, 246, 247, 252, 253} -> "audio/mpeg"
      [] a = 255 /\ b \in {240, 241, 248, 249} -> "audio/x-hx-aac-adts"
      [] OTHER -> ""

\* the bytes libmagic's text test admits in ASCII, ISO-8859 and extended
\* ASCII text: all but the control characters other than BEL BS HT LF VT FF
\* CR ESC, and DEL
TextChars == Bytes \ ((0 .. 6) \cup (14 .. 26) \cup (28 .. 31) \cup {127})

\* the bytes that are text when read as EBCDIC
EbcdicChars == {5, 11, 12, 13, 21, 22, 37, 39, 47} \cup ((64 .. 255) \ {225})

\* the text test on a whole buffer
LooksText(buf) ==
    \/ \A i \in 1 .. Len(buf) : buf[i] \in TextChars
    \/ \A i \in 1 .. Len(buf) : buf[i] \in EbcdicChars

\* no buffer, one byte ("very short file (no magic)"), two bytes
from_buffer(buf) ==
    CASE Len(buf) = 0 -> "application/x-empty"
      [] Len(buf) = 1 -> "application/octet-stream"
      [] Len(buf) = 2 ->
            IF Signature(buf[1], buf[2]) # "" THEN Signature(buf[1], buf[2])
            ELSE IF LooksText(buf) THEN "text/plain"
            ELSE "application/octet-stream"

DigitLo == 48
DigitHi == 57

\* a slip: and in place of or
KeyFilter_and(a, b) ==
    (DigitLo <= a /\ a <= DigitHi) /\ (DigitLo <= b /\ b <= DigitHi)

\* if 48 <= k1 <= 57 or 48 <= k2 <= 57
KeyFilter(a, b) ==
    (DigitLo <= a /\ a <= DigitHi) \/ (DigitLo <= b /\ b <= DigitHi)

\* a slip: the zlib verdict left out of the list
Rejected_short(mtype) ==
    mtype \in {"application/octet-stream", "data"}

\* mtype in ['application/octet-stream', 'data', 'application/zlib']
Rejected(mtype) ==
    mtype \in {"application/octet-stream", "data", "application/zlib"}

\* one digit of format(n, 'x')
HexDigit(n) == IF n < 10 THEN 48 + n ELSE 87 + n

\* f"{k:02x}"
Hex02(k) == <<HexDigit(k \div 16), HexDigit(k % 16)>>

\* tag = f"{k1:02x}_{k2:02x}"; f"recovered_{tag}.bin", the name inside output_dir
out_name(a, b) ==
    <<114, 101, 99, 111, 118, 101, 114, 101, 100, 95>> \o Hex02(a) \o <<95>> \o Hex02(b) \o <<46, 98, 105, 110>>

\* line 64, product(range(256), repeat=2): the second bytes that follow
\* first byte a, in order
SecondBytes == [i \in 1 .. ByteCount |-> i - 1]

\* line 65: those of them that pass the filter
Passing(a) == SelectSeq(SecondBytes, LAMBDA b : KeyFilter(a, b))

\* lines 66-67: decrypted = xor_decrypt(data, (k1, k2)) and its verdict
Decrypted(a, b) == xor_decrypt(data, <<a, b>>)
Verdict(a, b) == from_buffer(Decrypted(a, b))

\* line 69: those whose verdict is not in the rejection list
Accepted(a) == SelectSeq(Passing(a), LAMBDA b : ~Rejected(Verdict(a, b)))

\* lines 70-73, with open(out_path, 'wb') as out: out.write(decrypted), for
\* the keys (a, bs[1]), (a, bs[2]), ...: a later write replaces an earlier one
WriteFiles(dir, a, bs) ==
    LET Written(n) == { i \in 1 .. Len(bs) : out_name(a, bs[i]) = n }
        Latest(n) == CHOOSE i \in Written(n) : \A j \in Written(n) : j <= i
    IN  [n \in (DOMAIN dir) \cup { out_name(a, bs[i]) : i \in 1 .. Len(bs) } |->
            IF Written(n) # {} THEN Decrypted(a, bs[Latest(n)]) ELSE dir[n]]

\* line 75, valid.append((k1, k2, mtype)), for the same keys
Records(a, bs) == [i \in 1 .. Len(bs) |-> <<a, bs[i], Verdict(a, bs[i])>>]

\* lines 57-62: read the blob, empty result list, os.makedirs(exist_ok=True)
BruteStart ==
    /\ bpc = "start"
    /\ dir_exists' = TRUE
    /\ valid' = <<>>
    /\ bpc' = "loop"
    /\ UNCHANGED <<data, k1, files, tried, skipped, last, report>>

\* lines 64-75: the 256 iterations with first byte k1
BruteRow ==
    /\ bpc = "loop"
    /\ valid' = valid \o Records(k1, Accepted(k1))
    /\ files' = WriteFiles(files, k1, Accepted(k1))
    /\ tried' = tried + Len(Passing(k1))
    /\ skipped' = skipped + (ByteCount - Len(Passing(k1)))
    /\ last' = <<k1, { Passing(k1)[i] : i \in 1 .. Len(Passing(k1)) }>>
    /\ IF k1 = ByteCount - 1
       THEN bpc' = "report" /\ k1' = k1
       ELSE bpc' = "loop" /\ k1' = k1 + 1
    /\ UNCHANGED <<data, dir_exists, report>>

\* lines 77-78
BruteReportNone ==
    /\ bpc = "report"
    /\ valid = <<>>
    /\ report' = [text |-> "No valid headers detected.", count |-> 0]
    /\ bpc' = "done"
    /\ UNCHANGED <<data, k1, valid, files, dir_exists, tried, skipped, last>>

\* lines 79-80
BruteReportCount ==
    /\ bpc = "report"
    /\ valid # <<>>
    /\ report' = [text |-> "potential files recovered.", count |-> Len(valid)]
    /\ bpc' = "done"
    /\ UNCHANGED <<data, k1, valid, files, dir_exists, tried, skipped, last>>

(***************************************************************************)
(* xor_decrypt on drawn inputs                                             *)
(***************************************************************************)
XorBytes == {0, 49, 128, 255}
XorKeyBytes == {0, 1, 2, 4, 8, 16, 32, 48, 57, 64, 85, 127, 128, 170, 240, 255}

XorOnce ==
    /\ xpc = "input"
    /\ xonce' = xor_decrypt(xdata, xkey)
    /\ xpc' = "once"
    /\ UNCHANGED <<xdata, xkey, xtwice>>

XorTwice ==
    /\ xpc = "once"
    /\ xtwice' = xor_decrypt(xonce, xkey)
    /\ xpc' = "twice"
    /\ UNCHANGED <<xdata, xkey, xonce>>

(***************************************************************************)
(* unshadow_file_system.py: text helpers                                   *)
(***************************************************************************)
\* Python's str < str: code point by code point, a proper prefix first
RECURSIVE StrLess(_, _)
StrLess(a, b) ==
    IF b = <<>> THEN FALSE
    ELSE IF a = <<>> THEN TRUE
    ELSE IF Head(a) # Head(b) THEN Head(a) < Head(b)
    ELSE StrLess(Tail(a), Tail(b))

\* insertion of x into an ascending list
RECURSIVE Insert(_, _)
Insert(x, s) ==
    IF s = <<>> THEN <<x>>
    ELSE IF StrLess(x, Head(s)) THEN <<x>> \o s
    ELSE <<Head(s)>> \o Insert(x, Tail(s))

\* sorted(list of str)
RECURSIVE sorted(_)
sorted(s) ==
    IF s = <<>> THEN <<>> ELSE Insert(Head(s), sorted(Tail(s)))

\* str.lower() on the ASCII letters
lower(s) == [i \in 1 .. Len(s) |-> IF s[i] \in 65 .. 90 THEN s[i] + 32 ELSE s[i]]

\* str.endswith
endswith(s, suffix) ==
    /\ Len(s) >= Len(suffix)
    /\ SubSeq(s, Len(s) - Len(suffix) + 1, Len(s)) = suffix

\* os.path.splitext(name)[1]: from the last dot on, unless that dot only
\* follows leading dots
splitext_ext(name) ==
    LET dots == { i \in 1 .. Len(name) : name[i] = 46 }
        lead == { i \in 1 .. Len(name) : \A j \in 1 .. i : name[j] = 46 }
    IN  IF dots = {} THEN <<>>
        ELSE LET d == CHOOSE i \in dots : \A j \in dots : j <= i
             IN  IF d \in lead THEN <<>> ELSE SubSeq(name, d, Len(name))

\* "\n".join(lines)
RECURSIVE join_lines(_)
join_lines(lines) ==
    IF lines = <<>> THEN <<>>
    ELSE IF Len(lines) = 1 THEN lines[1]
    ELSE lines[1] \o <<10>> \o join_lines(Tail(lines))

\* OFFICE_EXTENSIONS = {'.docx', '.pptx', '.xlsx'}
OFFICE_EXTENSIONS == { <<46, 100, 111, 99, 120>>, <<46, 112, 112, 116, 120>>, <<46, 120, 108, 115, 120>> }

\* the connectors "└─" and "├─", the continuations "   " and "│  "
TERMINAL == <<9492, 9472>>
MIDBRANCH == <<9500, 9472>>
BLANKS == <<32, 32, 32>>
BAR == <<9474, 32, 32>>

\* f"{prefix}{connector} {label}"
format_tree_line(prefix, connector, label) == prefix \o connector \o <<32>> \o label

\* f"📁 {entry}/"
DirLabel(entry) == <<128193, 32>> \o entry \o <<47>>
\* f"📦 {entry} — Office ZIP archive"
OfficeLabel(entry) == <<128230, 32>> \o entry \o <<32, 8212, 32, 79, 102, 102, 105, 99, 101, 32, 90, 73, 80, 32, 97, 114, 99, 104, 105, 118, 101>>
\* f"📦 {entry} — ZIP archive"
ZipLabel(entry) == <<128230, 32>> \o entry \o <<32, 8212, 32, 90, 73, 80, 32, 97, 114, 99, 104, 105, 118, 101>>
\* f"📄 {entry} — {ftype}"
FileLabel(entry, ftype) == <<128196, 32>> \o entry \o <<32, 8212, 32>> \o ftype
\* f"❓ {entry}"
OtherLabel(entry) == <<10067, 32>> \o entry
\* "[Permission Denied]"
DeniedLabel == <<91, 80, 101, 114, 109, 105, 115, 115, 105, 111, 110, 32, 68, 101, 110, 105, 101, 100, 93>>

\* what libmagic reports for the contents the model's files have:
\* magic.from_file(path, mime=True) and magic.from_file(path)
MagicMime(kind) ==
    IF kind \in {"zip", "zip_empty"} THEN <<97, 112, 112, 108, 105, 99, 97, 116, 105, 111, 110, 47, 122, 105, 112>> ELSE <<116, 101, 120, 116, 47, 112, 108, 97, 105, 110>>
MagicDesc(kind) ==
    IF kind = "zip"
    THEN <<90, 105, 112, 32, 97, 114, 99, 104, 105, 118, 101, 32, 100, 97, 116, 97, 44, 32, 97, 116, 32, 108, 101, 97, 115, 116, 32, 118, 50, 46, 48, 32, 116, 111, 32, 101, 120, 116, 114, 97, 99, 116, 44, 32, 99, 111, 109, 112, 114, 101, 115, 115, 105, 111, 110, 32, 109, 101, 116, 104, 111, 100, 61, 115, 116, 111, 114, 101>>
    ELSE IF kind = "zip_empty" THEN <<90, 105, 112, 32, 97, 114, 99, 104, 105, 118, 101, 32, 100, 97, 116, 97, 32, 40, 101, 109, 112, 116, 121, 41>>
    ELSE <<65, 83, 67, 73, 73, 32, 116, 101, 120, 116>>

\* detect_file_type: m is the state of the magic module ("ok", "raises" when
\* its calls raise, "missing" when the import failed), kind the file's content
detect_file_type(m, kind) ==
    IF m = "missing" THEN <<85, 110, 107, 110, 111, 119, 110, 32, 40, 109, 97, 103, 105, 99, 32, 109, 111, 100, 117, 108, 101, 32, 110, 111, 116, 32, 105, 110, 115, 116, 97, 108, 108, 101, 100, 41>>
    ELSE IF m = "raises" THEN <<85, 110, 107, 110, 111, 119, 110, 32, 40, 102, 97, 105, 108, 101, 100, 41>>
    ELSE MagicMime(kind) \o <<32, 40>> \o MagicDesc(kind) \o <<41>>

(***************************************************************************)
(* unshadow_file_system.py: the file systems scanned                       *)
(***************************************************************************)
\* bounds: entries in the scanned tree, and the largest --max_depth drawn
MaxNodes == 4
MaxDepthArg == 2

\* the entry names O.DOCX, a.txt, d, p, s, z.zip and what each one is on
\* disk: "dir" a listable directory, "denied" a directory whose listing
\* raises PermissionError, "file" a regular file that is no ZIP (a line of
\* ASCII text), "zip" a regular file that is a valid ZIP container with
\* stored members, "other" neither directory nor regular file; a container
\* without members is "zip_empty"
N_OFFICE == <<79, 46, 68, 79, 67, 88>>
N_FILE == <<97, 46, 116, 120, 116>>
N_DIR == <<100>>
N_DENIED == <<112>>
N_OTHER == <<115>>
N_ZIP == <<122, 46, 122, 105, 112>>
PoolNames == {N_OFFICE, N_FILE, N_DIR, N_DENIED, N_OTHER, N_ZIP}

KindOfName(n) ==
    IF n = N_DIR THEN "dir"
    ELSE IF n = N_DENIED THEN "denied"
    ELSE IF n = N_FILE THEN "file"
    ELSE IF n = N_OTHER THEN "other"
    ELSE "zip"

\* the path sets with at most b entries; only d has entries below it
RECURSIVE Trees(_)
Trees(b) ==
    IF b = 0 THEN {{}}
    ELSE UNION {
        LET top == { <<n>> : n \in E }
        IN  IF N_DIR \in E
            THEN { top \cup { <<N_DIR>> \o p : p \in T } : T \in Trees(b - Cardinality(E)) }
            ELSE { top }
        : E \in { E \in SUBSET PoolNames : Cardinality(E) <= b } }

\* the archives z.zip among the paths of S
ZipPaths(S) == { p \in S : p[Len(p)] = N_ZIP }

\* a file system: path (names below the scanned folder) -> kind; any of its
\* archives z.zip may be one without members
FileSystems ==
    UNION { { [p \in S \cup {<<>>} |->
                  IF p = <<>> THEN "dir"
                  ELSE IF p \in Z THEN "zip_empty"
                  ELSE KindOfName(p[Len(p)])]
              : Z \in SUBSET ZipPaths(S) }
            : S \in Trees(MaxNodes) }
    \cup { [p \in {<<>>} |-> "denied"] }

\* the archives' member lists, in archive order: x.txt y.txt / y.txt x.txt /
\* x.txt and the directory member zz/ / the directory member m/ and m/k.txt /
\* no member
M_X == [name |-> <<120, 46, 116, 120, 116>>, kind |-> "file"]
M_Y == [name |-> <<121, 46, 116, 120, 116>>, kind |-> "file"]
M_ZZ == [name |-> <<122, 122, 47>>, kind |-> "dir"]
M_M == [name |-> <<109, 47>>, kind |-> "dir"]
M_MK == [name |-> <<109, 47, 107, 46, 116, 120, 116>>, kind |-> "file"]
ZipContents ==
    { <<M_X, M_Y>>, <<M_Y, M_X>>, <<M_X, M_ZZ>>, <<M_M, M_MK>>, <<>> }

\* the member lists a container of the given kind can hold
ContentsOf(kind) ==
    IF kind = "zip_empty" THEN { <<>> } ELSE ZipContents \ { <<>> }

\* values of --output: omitted, "", "report", "r.txt"
OutputArgs ==
    { [given |-> FALSE, value |-> <<>>],
      [given |-> TRUE, value |-> <<>>],
      [given |-> TRUE, value |-> <<114, 101, 112, 111, 114, 116>>],
      [given |-> TRUE, value |-> <<114, 46, 116, 120, 116>>] }

\* values of --max_depth after line 104: None for "max", else the integer
DepthArgs ==
    { [limited |-> FALSE, max |-> 0] }
    \cup { [limited |-> TRUE, max |-> m] : m \in 0 .. MaxDepthArg }

\* the orders os.listdir may return a directory's names in
RECURSIVE Orders(_)
Orders(S) ==
    IF S = {} THEN {<<>>}
    ELSE UNION { { <<x>> \o s : s \in Orders(S \ {x}) } : x \in S }

\* os.listdir(path): the names directly below path
listdir(f, path) ==
    { p[Len(p)] : p \in { q \in DOMAIN f :
          /\ Len(q) = Len(path) + 1
          /\ SubSeq(q, 1, Len(path)) = path } }

\* os.path.isdir, os.path.isfile, zipfile.is_zipfile
isdir(f, p) == p \in DOMAIN f /\ f[p] \in {"dir", "denied"}
isfile(f, p) == p \in DOMAIN f /\ f[p] \in {"file", "zip", "zip_empty"}
is_zipfile(f, p) == p \in DOMAIN f /\ f[p] \in {"zip", "zip_empty"}

(***************************************************************************)
(* unshadow_file_system.py: scan_folder as a machine with a call stack     *)
(***************************************************************************)
\* a call of scan_folder: its arguments, its locals, and where it stands:
\*   "enter" before line 34, "loop" at the head of the for loop of line 45,
\*   "call" inside the recursive call of line 53, "extract" inside the with
\*   blocks before extractall, "members" in the for loop of line 71
Frame(path, current_depth, prefix, is_last) ==
    [path |-> path, current_depth |-> current_depth, prefix |-> prefix,
     is_last |-> is_last, pc |-> "enter", entries |-> <<>>, index |-> 0,
     tree_lines |-> <<>>, tmpdir |-> 0, namelist |-> <<>>, znames |-> <<>>,
     zindex |-> 0]

Top == stack[Len(stack)]
SetTop(f) == [stack EXCEPT ![Len(stack)] = f]
Running == spc = "scan" /\ stack # <<>>
InLoop == Running /\ Top.pc = "loop" /\ Top.index < Len(Top.entries)

\* a slip: >= in place of >
DepthExceeded_ge(dep, current_depth) == dep.limited /\ current_depth >= dep.max

\* line 34: depth is not None and current_depth > depth
DepthExceeded(dep, current_depth) == dep.limited /\ current_depth > dep.max

\* a slip: the placeholder is dropped
DeniedResult_none(prefix, is_last) == <<>>

\* line 43
DeniedResult(prefix, is_last) ==
    <<format_tree_line(prefix, IF is_last THEN TERMINAL ELSE MIDBRANCH, DeniedLabel)>>

\* a slip: every entry gets the mid-branch connector
Connector_mid(index, n) == MIDBRANCH

\* line 47
Connector(index, n) == IF index = n - 1 THEN TERMINAL ELSE MIDBRANCH

\* line 48
NextPrefix(prefix, index, n) == prefix \o (IF index = n - 1 THEN BLANKS ELSE BAR)

\* line 76: n is len(zip_ref.namelist())
ZConnector(zindex, n) == IF zindex = n - 1 THEN TERMINAL ELSE MIDBRANCH

\* a slip: Office containers are recognised by their exact extension only
IsOffice_exact(entry) == splitext_ext(entry) \in OFFICE_EXTENSIONS

\* lines 58 and 62: ext = os.path.splitext(entry)[1].lower(); ext in OFFICE_EXTENSIONS
IsOffice(entry) == lower(splitext_ext(entry)) \in OFFICE_EXTENSIONS

\* a slip: the directory is left behind
TemporaryDirectory_leak(dirs, t) == dirs

\* tempfile.TemporaryDirectory().__exit__: the directory and its content go
TemporaryDirectory_exit(dirs, t) == [d \in (DOMAIN dirs) \ {t} |-> dirs[d]]

\* zip_ref.extractall(tmpdir): every member appears below tmpdir
extractall(content) ==
    [n \in { content[i].name : i \in 1 .. Len(content) } |->
        (CHOOSE m \in { content[i] : i \in 1 .. Len(content) } : m.name = n).kind]

\* a return of the running call with value lines: to the caller, which
\* extends its tree_lines (line 54) and goes on with the next entry, or to
\* main (line 107)
Return(lines) ==
    IF Len(stack) = 1
    THEN /\ stack' = <<>>
         /\ tree' = lines
         /\ spc' = "deliver"
    ELSE /\ LET caller == stack[Len(stack) - 1]
           IN  stack' = SubSeq(stack, 1, Len(stack) - 2) \o
                   << [caller EXCEPT !.tree_lines = @ \o lines,
                                     !.index = @ + 1,
                                     !.pc = "loop"] >>
         /\ UNCHANGED <<tree, spc>>

Entry == Top.entries[Top.index + 1]
FullPath == Append(Top.path, Entry)
EntryConnector == Connector(Top.index, Len(Top.entries))
EntryNextPrefix == NextPrefix(Top.prefix, Top.index, Len(Top.entries))

\* lines 34-35
ScanDepthCut ==
    /\ Running /\ Top.pc = "enter"
    /\ DepthExceeded(depth, Top.current_depth)
    /\ Return(<<>>)
    /\ UNCHANGED <<fs, depth, allow_unzip, magic, out_arg, stdout, written,
                   tmpdirs, tmpseq, listed, opened, zseen>>

\* lines 40-43: os.listdir raises PermissionError
ScanDenied ==
    /\ Running /\ Top.pc = "enter"
    /\ ~DepthExceeded(depth, Top.current_depth)
    /\ fs[Top.path] = "denied"
    /\ listed' = listed \cup {Top.path}
    /\ Return(DeniedResult(Top.prefix, Top.is_last))
    /\ UNCHANGED <<fs, depth, allow_unzip, magic, out_arg, stdout, written,
                   tmpdirs, tmpseq, opened, zseen>>

\* lines 37-41: entries = sorted(os.listdir(path))
ScanList ==
    /\ Running /\ Top.pc = "enter"
    /\ ~DepthExceeded(depth, Top.current_depth)
    /\ fs[Top.path] = "dir"
    /\ \E listing \in Orders(listdir(fs, Top.path)) :
          stack' = SetTop([Top EXCEPT !.entries = sorted(listing),
                                      !.index = 0, !.pc = "loop"])
    /\ listed' = listed \cup {Top.path}
    /\ UNCHANGED <<fs, depth, allow_unzip, magic, tree, spc, out_arg, stdout,
                   written, tmpdirs, tmpseq, opened, zseen>>

\* lines 51-53: a subdirectory: its line, then the recursive call
EntryDir ==
    /\ InLoop
    /\ isdir(fs, FullPath)
    /\ stack' = SetTop([Top EXCEPT
              !.tree_lines = Append(@, format_tree_line(Top.prefix, EntryConnector,
                                                        DirLabel(Entry))),
              !.pc = "call"])
          \o << Frame(FullPath, Top.current_depth + 1, EntryNextPrefix,
                      Top.index = Len(Top.entries) - 1) >>
    /\ UNCHANGED <<fs, depth, allow_unzip, magic, tree, spc, out_arg, stdout,
                   written, tmpdirs, tmpseq, listed, opened, zseen>>

\* lines 57-61 false, 78-81: a regular file that is not treated as an archive
EntryFile ==
    /\ InLoop
    /\ ~isdir(fs, FullPath) /\ isfile(fs, FullPath)
    /\ ~(allow_unzip /\ is_zipfile(fs, FullPath))
    /\ stack' = SetTop([Top EXCEPT
              !.tree_lines = Append(@, format_tree_line(Top.prefix, EntryConnector,
                      FileLabel(Entry, detect_file_type(magic, fs[FullPath])))),
              !.index = @ + 1])
    /\ UNCHANGED <<fs, depth, allow_unzip, magic, tree, spc, out_arg, stdout,
                   written, tmpdirs, tmpseq, listed, opened, zseen>>

\* lines 61-64: an Office container
EntryOffice ==
    /\ InLoop
    /\ ~isdir(fs, FullPath) /\ isfile(fs, FullPath)
    /\ allow_unzip /\ is_zipfile(fs, FullPath)
    /\ IsOffice(Entry)
    /\ stack' = SetTop([Top EXCEPT
              !.tree_lines = Append(@, format_tree_line(Top.prefix, EntryConnector,
                                                        OfficeLabel(Entry))),
              !.index = @ + 1])
    /\ UNCHANGED <<fs, depth, allow_unzip, magic, tree, spc, out_arg, stdout,
                   written, tmpdirs, tmpseq, listed, opened, zseen>>

\* lines 65-68: the archive's line, then the temporary directory is made
EntryZipOpen ==
    /\ InLoop
    /\ ~isdir(fs, FullPath) /\ isfile(fs, FullPath)
    /\ allow_unzip /\ is_zipfile(fs, FullPath)
    /\ ~IsOffice(Entry)
    /\ tmpseq' = tmpseq + 1
    /\ tmpdirs' = [d \in (DOMAIN tmpdirs) \cup {tmpseq + 1} |->
                      IF d = tmpseq + 1 THEN <<>> ELSE tmpdirs[d]]
    /\ stack' = SetTop([Top EXCEPT
              !.tree_lines = Append(@, format_tree_line(Top.prefix, EntryConnector,
                                                        ZipLabel(Entry))),
              !.tmpdir = tmpseq + 1,
              !.pc = "extract"])
    /\ opened' = opened \cup {FullPath}
    /\ UNCHANGED <<fs, depth, allow_unzip, magic, tree, spc, out_arg, stdout,
                   written, listed, zseen>>

\* lines 69-71: the archive is opened and extracted; the member loop starts
ZipExtractOk ==
    /\ Running /\ Top.pc = "extract"
    /\ \E content \in ContentsOf(fs[FullPath]) :
          LET names == [i \in 1 .. Len(content) |-> content[i].name]
          IN  /\ tmpdirs' = [tmpdirs EXCEPT ![Top.tmpdir] = extractall(content)]
              /\ stack' = SetTop([Top EXCEPT !.namelist = names,
                                             !.znames = sorted(names),
                                             !.zindex = 0,
                                             !.pc = "members"])
              /\ zseen' = [p \in (DOMAIN zseen) \cup {FullPath} |->
                              IF p = FullPath THEN content ELSE zseen[p]]
    /\ UNCHANGED <<fs, depth, allow_unzip, magic, tree, spc, out_arg, stdout,
                   written, tmpseq, listed, opened>>

\* lines 69-70 raise: both with blocks are left, the exception reaches main
ZipExtractFail ==
    /\ Running /\ Top.pc = "extract"
    /\ tmpdirs' = TemporaryDirectory_exit(tmpdirs, Top.tmpdir)
    /\ stack' = <<>>
    /\ spc' = "raised"
    /\ UNCHANGED <<fs, depth, allow_unzip, magic, tree, out_arg, stdout,
                   written, tmpseq, listed, opened, zseen>>

ZName == Top.znames[Top.zindex + 1]
ZIsDir == ZName \in DOMAIN tmpdirs[Top.tmpdir] /\ tmpdirs[Top.tmpdir][ZName] = "dir"
ZIsFile == ZName \in DOMAIN tmpdirs[Top.tmpdir] /\ tmpdirs[Top.tmpdir][ZName] = "file"
InMembers == Running /\ Top.pc = "members" /\ Top.zindex < Len(Top.znames)

\* lines 72-74: a member that is a directory or no regular file
ZipMemberSkip ==
    /\ InMembers
    /\ ZIsDir \/ ~ZIsFile
    /\ stack' = SetTop([Top EXCEPT !.zindex = @ + 1])
    /\ UNCHANGED <<fs, depth, allow_unzip, magic, tree, spc, out_arg, stdout,
                   written, tmpdirs, tmpseq, listed, opened, zseen>>

\* lines 75-77: a member that is a regular file gets its line
ZipMemberLine ==
    /\ InMembers
    /\ ~(ZIsDir \/ ~ZIsFile)
    /\ stack' = SetTop([Top EXCEPT
              !.tree_lines = Append(@, format_tree_line(EntryNextPrefix,
                      ZConnector(Top.zindex, Len(Top.namelist)),
                      FileLabel(ZName, detect_file_type(magic, "file")))),
              !.zindex = @ + 1])
    /\ UNCHANGED <<fs, depth, allow_unzip, magic, tree, spc, out_arg, stdout,
                   written, tmpdirs, tmpseq, listed, opened, zseen>>

\* the with blocks of lines 68-69 end: the temporary directory is removed
ZipClose ==
    /\ Running /\ Top.pc = "members" /\ Top.zindex = Len(Top.znames)
    /\ tmpdirs' = TemporaryDirectory_exit(tmpdirs, Top.tmpdir)
    /\ stack' = SetTop([Top EXCEPT !.index = @ + 1, !.pc = "loop"])
    /\ UNCHANGED <<fs, depth, allow_unzip, magic, tree, spc, out_arg, stdout,
                   written, tmpseq, listed, opened, zseen>>

\* lines 84-85: neither directory nor regular file
EntryOther ==
    /\ InLoop
    /\ ~isdir(fs, FullPath) /\ ~isfile(fs, FullPath)
    /\ stack' = SetTop([Top EXCEPT
              !.tree_lines = Append(@, format_tree_line(Top.prefix, EntryConnector,
                                                        OtherLabel(Entry))),
              !.index = @ + 1])
    /\ UNCHANGED <<fs, depth, allow_unzip, magic, tree, spc, out_arg, stdout,
                   written, tmpdirs, tmpseq, listed, opened, zseen>>

\* line 87: the loop is over
ScanLoopEnd ==
    /\ Running /\ Top.pc = "loop" /\ Top.index = Len(Top.entries)
    /\ Return(Top.tree_lines)
    /\ UNCHANGED <<fs, depth, allow_unzip, magic, out_arg, stdout, written,
                   tmpdirs, tmpseq, listed, opened, zseen>>

(***************************************************************************)
(* unshadow_file_system.py: main, after the scan (lines 109-116)           *)
(***************************************************************************)
WARNING == <<91, 33, 93, 32, 80, 108, 101, 97, 115, 101, 32, 117, 115, 101, 32, 97, 32, 46, 116, 120, 116, 32, 101, 120, 116, 101, 110, 115, 105, 111, 110, 32, 102, 111, 114, 32, 116, 104, 101, 32, 111, 117, 116, 112, 117, 116, 32, 102, 105, 108, 101, 46>>

\* line 110: if args.output (None and "" are false)
Truthy(o) == o.given /\ o.value # <<>>

\* lines 111-112; args.output is first read here
MainWarn ==
    /\ spc = "deliver"
    /\ \E o \in OutputArgs :
          /\ Truthy(o) /\ ~endswith(o.value, <<46, 116, 120, 116>>)
          /\ out_arg' = o
    /\ stdout' = Append(stdout, WARNING)
    /\ spc' = "done"
    /\ UNCHANGED <<fs, depth, allow_unzip, magic, stack, tree, written,
                   tmpdirs, tmpseq, listed, opened, zseen>>

\* write_report: open(output_file, "w") makes or replaces the file
write_report(dir, output_file, text) ==
    [n \in (DOMAIN dir) \cup {output_file} |-> IF n = output_file THEN text ELSE dir[n]]

\* lines 113-114 and write_report
MainWrite ==
    /\ spc = "deliver"
    /\ \E o \in OutputArgs :
          /\ Truthy(o) /\ endswith(o.value, <<46, 116, 120, 116>>)
          /\ out_arg' = o
          /\ written' = write_report(written, o.value, join_lines(tree))
    /\ spc' = "done"
    /\ UNCHANGED <<fs, depth, allow_unzip, magic, stack, tree, stdout,
                   tmpdirs, tmpseq, listed, opened, zseen>>

\* lines 115-116
MainPrint ==
    /\ spc = "deliver"
    /\ \E o \in OutputArgs :
          /\ ~Truthy(o)
          /\ out_arg' = o
    /\ stdout' = Append(stdout, join_lines(tree))
    /\ spc' = "done"
    /\ UNCHANGED <<fs, depth, allow_unzip, magic, stack, tree, written,
                   tmpdirs, tmpseq, listed, opened, zseen>>

(***************************************************************************)
(* Specifications                                                          *)
(***************************************************************************)
XorIdle ==
    /\ xdata = <<>> /\ xkey = <<0, 0>> /\ xonce = <<>> /\ xtwice = <<>>
    /\ xpc = "idle"

BruteIdle ==
    /\ data = <<>> /\ k1 = 0 /\ valid = <<>> /\ files = <<>>
    /\ dir_exists = FALSE /\ tried = 0 /\ skipped = 0 /\ last = <<>>
    /\ report = [text |-> "", count |-> 0] /\ bpc = "idle"

ScanIdle ==
    /\ fs = <<>> /\ depth = [limited |-> FALSE, max |-> 0] /\ allow_unzip = FALSE
    /\ magic = "missing" /\ stack = <<>> /\ tree = <<>> /\ spc = "idle"
    /\ out_arg = [given |-> FALSE, value |-> <<>>] /\ stdout = <<>>
    /\ written = <<>> /\ tmpdirs = <<>> /\ tmpseq = 0 /\ listed = {}
    /\ opened = {} /\ zseen = <<>>

XorInit ==
    /\ xdata \in SeqsUpTo(XorBytes, MaxLen)
    /\ xkey \in XorKeyBytes \X XorKeyBytes
    /\ xonce = <<>> /\ xtwice = <<>>
    /\ xpc = "input"

BruteInit ==
    /\ data \in Blobs
    /\ k1 = 0 /\ valid = <<>> /\ files = <<>>
    /\ dir_exists \in BOOLEAN
    /\ tried = 0 /\ skipped = 0 /\ last = <<>>
    /\ report = [text |-> "", count |-> 0]
    /\ bpc = "start"

\* main up to line 107: the arguments are parsed and scan_folder is called
\* on the folder with current_depth 0, prefix "" and is_last True
ScanInit ==
    /\ fs \in FileSystems
    /\ depth \in DepthArgs
    /\ allow_unzip \in BOOLEAN
    /\ magic \in {"ok", "raises", "missing"}
    /\ stack = << Frame(<<>>, 0, <<>>, TRUE) >>
    /\ tree = <<>> /\ spc = "scan"
    /\ out_arg = [given |-> FALSE, value |-> <<>>] /\ stdout = <<>>
    /\ written = <<>> /\ tmpdirs = <<>> /\ tmpseq = 0 /\ listed = {}
    /\ opened = {} /\ zseen = <<>>

XorNext ==
    \/ XorOnce /\ UNCHANGED <<bvars, svars>>
    \/ XorTwice /\ UNCHANGED <<bvars, svars>>

BruteNext ==
    \/ BruteStart /\ UNCHANGED <<xvars, svars>>
    \/ BruteRow /\ UNCHANGED <<xvars, svars>>
    \/ BruteReportNone /\ UNCHANGED <<xvars, svars>>
    \/ BruteReportCount /\ UNCHANGED <<xvars, svars>>

ScanNext ==
    \/ ScanDepthCut /\ UNCHANGED <<xvars, bvars>>
    \/ ScanDenied /\ UNCHANGED <<xvars, bvars>>
    \/ ScanList /\ UNCHANGED <<xvars, bvars>>
    \/ EntryDir /\ UNCHANGED <<xvars, bvars>>
    \/ EntryFile /\ UNCHANGED <<xvars, bvars>>
    \/ EntryOffice /\ UNCHANGED <<xvars, bvars>>
    \/ EntryZipOpen /\ UNCHANGED <<xvars, bvars>>
    \/ ZipExtractOk /\ UNCHANGED <<xvars, bvars>>
    \/ ZipExtractFail /\ UNCHANGED <<xvars, bvars>>
    \/ ZipMemberSkip /\ UNCHANGED <<xvars, bvars>>
    \/ ZipMemberLine /\ UNCHANGED <<xvars, bvars>>
    \/ ZipClose /\ UNCHANGED <<xvars, bvars>>
    \/ EntryOther /\ UNCHANGED <<xvars, bvars>>
    \/ ScanLoopEnd /\ UNCHANGED <<xvars, bvars>>
    \/ MainWarn /\ UNCHANGED <<xvars, bvars>>
    \/ MainWrite /\ UNCHANGED <<xvars, bvars>>
    \/ MainPrint /\ UNCHANGED <<xvars, bvars>>

InitOfXor == XorInit /\ BruteIdle /\ ScanIdle
InitOfBrute == BruteInit /\ XorIdle /\ ScanIdle
InitOfScan == ScanInit /\ XorIdle /\ BruteIdle

SpecXor == InitOfXor /\ [][XorNext]_vars
SpecBrute == InitOfBrute /\ [][BruteNext]_vars
SpecScan == InitOfScan /\ [][ScanNext]_vars

(***************************************************************************)
(* Properties of xor_decrypt and brute_force_xor                           *)
(***************************************************************************)
\* C1: decrypting twice with the same key gives the data back, for every
\* drawn byte sequence (the empty one and odd lengths included) and key
C1_XorInvolution ==
    xpc = "twice" =>
        /\ xtwice = xdata
        /\ Len(xonce) = Len(xdata)

C1_Witness ==
    /\ xpc = "twice"
    /\ Len(xdata) = 3
    /\ xkey[1] # xkey[2]
    /\ xonce # xdata

PairCount == ByteCount * ByteCount

\* C2 as stated: 225 pairs are excluded and 65,311 are decrypted;
\* (0x29,0x29) is excluded and (0x30,0x29) is included
C2_Original ==
    /\ bpc = "done" =>
          /\ skipped = 225
          /\ tried = 65311
    /\ (last # <<>> /\ last[1] = 41) => 41 \notin last[2]
    /\ (last # <<>> /\ last[1] = 48) => 41 \in last[2]

\* C2 amended: the filter excludes the 60,516 pairs with no byte in
\* 0x30..0x39 and the other 5,020 pairs are decrypted and classified;
\* (0x29,0x29) is excluded and (0x30,0x29) is included
C2_FilterCounts ==
    /\ bpc = "done" =>
          /\ skipped = 60516
          /\ tried = 5020
          /\ skipped + tried = PairCount
    /\ (last # <<>> /\ last[1] = 41) => 41 \notin last[2]
    /\ (last # <<>> /\ last[1] = 48) => 41 \in last[2]

C2_Witness ==
    /\ bpc = "done"
    /\ skipped > 0
    /\ tried > 0

\* the hex digits of a byte, by table
HexChars == <<48, 49, 50, 51, 52, 53, 54, 55, 56, 57, 97, 98, 99, 100, 101, 102>>
ExpectedName(a, b) ==
    <<114, 101, 99, 111, 118, 101, 114, 101, 100, 95,
      HexChars[(a \div 16) + 1], HexChars[(a % 16) + 1], 95,
      HexChars[(b \div 16) + 1], HexChars[(b % 16) + 1], 46, 98, 105, 110>>

Qualifying(d) ==
    { k \in Bytes \X Bytes :
        /\ k[1] \in 48 .. 57 \/ k[2] \in 48 .. 57
        /\ from_buffer(xor_decrypt(d, k)) \notin
               {"application/octet-stream", "data", "application/zlib"} }

\* C3: once brute_force_xor has completed on an empty output directory, the
\* files and the records are exactly those of the keys with a digit byte
\* whose decryption is not classified as octet-stream, data or zlib; each
\* file holds that decryption; the reported count is the number of files;
\* with no such key the directory exists, is empty, and no valid headers
\* are reported
C3_RecoveredExactly ==
    bpc = "done" =>
        LET Q == Qualifying(data)
        IN  /\ dir_exists
            /\ DOMAIN files = { ExpectedName(k[1], k[2]) : k \in Q }
            /\ \A k \in Q : files[ExpectedName(k[1], k[2])] = xor_decrypt(data, k)
            /\ { valid[i] : i \in 1 .. Len(valid) } =
                   { <<k[1], k[2], from_buffer(xor_decrypt(data, k))>> : k \in Q }
            /\ Len(valid) = Cardinality(Q)
            /\ report.count = Cardinality(DOMAIN files)
            /\ (Q = {}) <=> (report.text = "No valid headers detected.")
            /\ (Q # {}) <=> (report.text = "potential files recovered.")

C3_Witness ==
    /\ bpc = "done"
    /\ data = <<42, 42>>
    /\ Len(valid) = 462
    /\ Cardinality(DOMAIN files) = 462
    /\ \E i \in 1 .. Len(valid) : valid[i] = <<53, 183, "application/x-compress">>
    /\ ExpectedName(53, 183) \in DOMAIN files
    /\ files[ExpectedName(53, 183)] = <<31, 157>>
    /\ ExpectedName(50, 50) \notin DOMAIN files
(***************************************************************************)
(* Properties of scan_folder and main                                      *)
(***************************************************************************)
\* scan_folder has just returned its lines to main (line 107); main does
\* not change them afterwards
Done == spc = "deliver"

\* a before b in lexicographic order of code points
NameBefore(a, b) ==
    \E i \in 1 .. Len(b) :
        /\ \A j \in 1 .. (i - 1) : j <= Len(a) /\ a[j] = b[j]
        /\ i > Len(a) \/ a[i] < b[i]

\* pre-order of the tree: path k before path l
KeyBefore(k, l) ==
    \E i \in 1 .. Len(l) :
        /\ \A j \in 1 .. (i - 1) : j <= Len(k) /\ k[j] = l[j]
        /\ i > Len(k) \/ NameBefore(k[i], l[i])

Parent(p) == SubSeq(p, 1, Len(p) - 1)
NameOf(p) == p[Len(p)]

\* every directory above p can be listed
Reachable(p) == \A i \in 0 .. (Len(p) - 1) : fs[SubSeq(p, 1, i)] = "dir"

\* the entries found in listings at levels 0..d (all levels without a limit)
Shown ==
    { p \in DOMAIN fs :
        /\ p # <<>>
        /\ Reachable(p)
        /\ ~depth.limited \/ Len(p) <= depth.max + 1 }

\* the directories within the depth limit whose listing is refused
DeniedDirs ==
    { p \in DOMAIN fs :
        /\ fs[p] = "denied"
        /\ p = <<>> \/ p \in Shown
        /\ ~depth.limited \/ Len(p) <= depth.max }

\* the name ends in .docx, .pptx or .xlsx, in any letter case
HasOfficeExt(name) ==
    \E e \in { <<46, 100, 111, 99, 120>>, <<46, 112, 112, 116, 120>>, <<46, 120, 108, 115, 120>> } :
        /\ Len(name) >= Len(e)
        /\ \A i \in 1 .. Len(e) :
              LET c == name[Len(name) - Len(e) + i]
              IN  c = e[i] \/ (c \in 65 .. 90 /\ c + 32 = e[i])

\* the kinds zipfile.is_zipfile accepts
Archives == {"zip", "zip_empty"}

\* the archives to expand
Expanded ==
    { p \in Shown : allow_unzip /\ fs[p] \in Archives /\ ~HasOfficeExt(NameOf(p)) }

\* the members of archive p that are regular files
FileMembers(p) ==
    IF p \in DOMAIN zseen
    THEN { zseen[p][i].name : i \in { j \in 1 .. Len(zseen[p]) : zseen[p][j].kind = "file" } }
    ELSE {}

\* what gets a line: entries, one placeholder per refused directory, the
\* regular-file members of the expanded archives; key is the place in the tree
Items ==
    { [key |-> p, tag |-> "entry"] : p \in Shown }
    \cup { [key |-> Append(p, <<91, 80, 101, 114, 109, 105, 115, 115, 105, 111, 110, 32, 68, 101, 110, 105, 101, 100, 93>>), tag |-> "denied"] : p \in DeniedDirs }
    \cup UNION { { [key |-> Append(p, m), tag |-> "member"] : m \in FileMembers(p) }
                 : p \in Expanded }

\* the items in pre-order
PreOrder ==
    LET all == Items
        rank == [x \in all |-> Cardinality({ y \in all : KeyBefore(y.key, x.key) })]
    IN  [i \in 1 .. Cardinality(all) |-> CHOOSE x \in all : rank[x] = i - 1]

\* p is the last entry of its directory's listing
IsLastEntry(p) ==
    \A q \in DOMAIN fs :
        (q # <<>> /\ q # p /\ Len(q) = Len(p) /\ Parent(q) = Parent(p))
            => NameBefore(NameOf(q), NameOf(p))

\* three blanks below a last entry, the bar and two blanks below any other
Continuation(p) == IF IsLastEntry(p) THEN <<32, 32, 32>> ELSE <<9474, 32, 32>>

\* the prefix of the lines directly below the folder (k of length 1) and
\* below the entry Parent(k) otherwise
RECURSIVE Indent(_)
Indent(k) ==
    IF Len(k) <= 1 THEN <<>>
    ELSE Indent(Parent(k)) \o Continuation(Parent(k))

Glyph(isLast) == IF isLast THEN <<9492, 9472>> ELSE <<9500, 9472>>

EntryLabel(p) ==
    IF fs[p] \in {"dir", "denied"} THEN DirLabel(NameOf(p))
    ELSE IF fs[p] = "other" THEN OtherLabel(NameOf(p))
    ELSE IF fs[p] \in Archives /\ allow_unzip
        THEN IF HasOfficeExt(NameOf(p)) THEN OfficeLabel(NameOf(p))
             ELSE ZipLabel(NameOf(p))
    ELSE FileLabel(NameOf(p), detect_file_type(magic, fs[p]))

EntryLine(p) == Indent(p) \o Glyph(IsLastEntry(p)) \o <<32>> \o EntryLabel(p)

StartsWith(s, t) == Len(s) >= Len(t) /\ SubSeq(s, 1, Len(t)) = t

Occurrences(line) == Cardinality({ i \in 1 .. Len(tree) : tree[i] = line })

\* the directories scan_folder must list: reachable, within the limit
ToList ==
    { p \in DOMAIN fs :
        /\ fs[p] \in {"dir", "denied"}
        /\ Reachable(p)
        /\ ~depth.limited \/ Len(p) <= depth.max }

\* C4: no directory nested deeper than the limit is listed; every entry at
\* levels 0..d has its line, a subdirectory found at level d has its one
\* line and nothing for its contents; without a limit every directory is
\* listed
C4_DepthLimit ==
    /\ depth.limited => \A p \in listed : Len(p) <= depth.max
    /\ Done =>
          /\ listed = ToList
          /\ \A p \in (DOMAIN fs) \ {<<>>} :
                Occurrences(EntryLine(p)) = (IF p \in Shown THEN 1 ELSE 0)
          /\ Len(tree) = Cardinality(Items)
          /\ LET order == PreOrder
             IN  \A i \in 1 .. (Len(tree) - 1) :
                    \A p \in Shown :
                        (depth.limited /\ Len(p) = depth.max + 1 /\ tree[i] = EntryLine(p)
                            /\ fs[p] \in {"dir", "denied"})
                        => Len(order[i + 1].key) <= Len(p)

C4_Witness ==
    /\ Done
    /\ depth.limited /\ depth.max = 0
    /\ Len(tree) = 2
    /\ \E p \in DOMAIN fs : Len(p) = 2
    /\ \E p \in DOMAIN fs : Len(p) = 1 /\ fs[p] = "file"

\* C5: the entries of every listed directory come in lexicographic order,
\* each directory line directly before its subtree, the last entry with the
\* terminal connector and the others with the mid-branch one, and every line
\* below an entry carries that entry's prefix extended by three blanks (last
\* entry) or by the bar and two blanks; an empty directory gives no line
C5_TreeShape ==
    Done =>
        /\ Len(tree) = Cardinality(Items)
        /\ LET order == PreOrder IN
           \A i \in 1 .. Len(tree) :
              LET x == order[i]
              IN  /\ x.tag = "entry" => tree[i] = EntryLine(x.key)
                  /\ x.tag # "entry" =>
                        /\ StartsWith(tree[i], Indent(x.key))
                        /\ SubSeq(tree[i], Len(Indent(x.key)) + 1, Len(Indent(x.key)) + 3)
                               \in { Glyph(TRUE) \o <<32>>, Glyph(FALSE) \o <<32>> }

C5_Witness ==
    /\ Done
    /\ \E p \in Shown : Len(p) = 3 /\ ~IsLastEntry(Parent(Parent(p))) /\ IsLastEntry(Parent(p))
    /\ \E p \in Shown : fs[p] = "dir" /\ listdir(fs, p) = {} /\ p \in listed
    /\ Len(tree) = 4

\* C6: at most one extraction directory exists at any moment, it exists
\* only while its archive is being processed, and none exists once
\* scan_folder has returned or raised
C6_TempDirRemoved ==
    /\ Cardinality(DOMAIN tmpdirs) <= 1
    /\ \A t \in DOMAIN tmpdirs :
          /\ Running
          /\ Top.pc \in {"extract", "members"}
          /\ Top.tmpdir = t
    /\ spc \in {"deliver", "done", "raised"} => tmpdirs = <<>>

C6_Witness ==
    /\ spc = "raised"
    /\ tmpseq = 2
    /\ tmpdirs = <<>>

\* C7 as stated: the archive's line is directly followed by one line per
\* regular-file member, in order of member path, with the archive's
\* continuation prefix, the last of them with the terminal connector and the
\* others with the mid-branch one
C7_MemberLines ==
    Done =>
        /\ Len(tree) = Cardinality(Items)
        /\ LET order == PreOrder IN
           \A i \in 1 .. Len(tree) :
              LET x == order[i]
                  p == Parent(x.key)
                  lastLine == \A m \in FileMembers(p) :
                              m = NameOf(x.key) \/ NameBefore(m, NameOf(x.key))
              IN  x.tag = "member" =>
                      tree[i] = Indent(x.key) \o Glyph(lastLine) \o <<32>>
                                  \o FileLabel(NameOf(x.key), detect_file_type(magic, "file"))

\* C8: only a valid ZIP without an Office extension is extracted, and only
\* with expansion enabled; an Office container gets its one opaque line;
\* with expansion disabled every regular file gets one standard line with
\* its classification
C8_ExpansionGate ==
    /\ \A p \in opened :
          allow_unzip /\ fs[p] \in Archives /\ ~HasOfficeExt(NameOf(p))
    /\ DOMAIN zseen \subseteq opened
    /\ tmpseq = Cardinality(opened)
    /\ Done =>
          /\ opened = Expanded
          /\ Len(tree) = Cardinality(Items)
          /\ LET order == PreOrder IN
             \A i \in 1 .. Len(tree) :
                LET x == order[i]
                    p == x.key
                IN  /\ (x.tag = "entry" /\ allow_unzip /\ fs[p] \in Archives
                            /\ HasOfficeExt(NameOf(p))) =>
                          /\ tree[i] = Indent(p) \o Glyph(IsLastEntry(p)) \o <<32>>
                                         \o OfficeLabel(NameOf(p))
                          /\ i < Len(tree) => order[i + 1].tag # "member"
                    /\ (x.tag = "entry" /\ ~allow_unzip /\ fs[p] \in {"file"} \cup Archives) =>
                          tree[i] = Indent(p) \o Glyph(IsLastEntry(p)) \o <<32>>
                                      \o FileLabel(NameOf(p), detect_file_type(magic, fs[p]))
          /\ ~allow_unzip => Len(tree) = Cardinality(Shown) + Cardinality(DeniedDirs)

C8_Witness ==
    /\ Done
    /\ allow_unzip
    /\ \E p \in Shown : fs[p] \in Archives /\ HasOfficeExt(NameOf(p)) /\ p \notin opened
    /\ \E p \in Shown : p \in opened /\ FileMembers(p) # {}

IsPlaceholder(line) ==
    /\ Len(line) >= Len(DeniedLabel)
    /\ SubSeq(line, Len(line) - Len(DeniedLabel) + 1, Len(line)) = DeniedLabel

\* C9: a refused listing within the depth limit does not raise; the
\* directory gets exactly one placeholder line, directly after its own
\* line, and every other line is the one the tree would have with that
\* directory empty
C9_PermissionDenied ==
    /\ (spc = "raised") => opened # {}
    /\ Done =>
          /\ Cardinality({ i \in 1 .. Len(tree) : IsPlaceholder(tree[i]) })
                 = Cardinality(DeniedDirs)
          /\ Len(tree) = Cardinality(Items)
          /\ LET order == PreOrder IN
             \A i \in 1 .. Len(tree) :
                LET x == order[i]
                IN  /\ x.tag = "denied" =>
                          /\ IsPlaceholder(tree[i])
                          /\ StartsWith(tree[i], Indent(x.key))
                          /\ Len(tree[i]) = Len(Indent(x.key)) + 3 + Len(DeniedLabel)
                          /\ Parent(x.key) # <<>> =>
                                tree[i - 1] = EntryLine(Parent(x.key))
                    /\ x.tag = "entry" => tree[i] = EntryLine(x.key)

C9_Witness ==
    /\ Done
    /\ \E p \in DeniedDirs :
          /\ Len(p) = 2
          /\ ~IsLastEntry(p)
    /\ \E i \in 1 .. Len(tree) : IsPlaceholder(tree[i])

\* the lines joined by newlines
RECURSIVE Joined(_)
Joined(lines) ==
    IF Len(lines) = 0 THEN <<>>
    ELSE IF Len(lines) = 1 THEN lines[1]
    ELSE Joined(SubSeq(lines, 1, Len(lines) - 1)) \o <<10>> \o lines[Len(lines)]

HasTxt(o) ==
    /\ Len(o.value) >= 4
    /\ SubSeq(o.value, Len(o.value) - 3, Len(o.value)) = <<46, 116, 120, 116>>

\* C10: once main has delivered the tree, --output given without .txt means
\* no file, the tree not printed and only the warning printed; --output
\* with .txt means the file holds the lines joined by newlines and nothing is
\* printed; --output omitted means the joined lines are printed and no file
\* is written
C10_Delivery ==
    spc = "done" =>
        /\ (out_arg.given /\ ~HasTxt(out_arg)) =>
              written = <<>> /\ stdout = <<WARNING>>
        /\ (out_arg.given /\ HasTxt(out_arg)) =>
              /\ DOMAIN written = {out_arg.value}
              /\ written[out_arg.value] = Joined(tree)
              /\ stdout = <<>>
        /\ ~out_arg.given =>
              written = <<>> /\ stdout = <<Joined(tree)>>
====
